---- MODULE Spec2Model ----
(***************************************************************************)
(* Triangular-arbitrage simulator (main.go): an ingestion goroutine reads  *)
(* quotes from a websocket and hands them over an unbuffered channel to    *)
(* the decision loop in main, which updates priceMap and calls             *)
(* TriArbStrategy.Execute.                                                 *)
(*                                                                         *)
(* float64 amounts are modelled as exact rationals n / (999^k * 10^m).     *)
(* Every value the program computes from decimal quotes and the rates      *)
(* 0.001 / 0.0001 has this form.  The numerator n is an arbitrary-size     *)
(* signed integer kept as limbs in base 10^4, because the products exceed  *)
(* the integer range of the model checker.                                 *)
(***************************************************************************)
EXTENDS Integers, Sequences, FiniteSets, TLC

-----------------------------------------------------------------------------
(* Bounds of the model *)

\* number of ReadMessage calls the feed answers before it stays silent
MaxReads == 4

-----------------------------------------------------------------------------
(* Exact arithmetic standing for float64 *)

Base == 10000

\* magnitude: sequence of limbs, least significant first, no high zero limb
RECURSIVE Trim(_)
Trim(a) ==
  IF a = <<>> THEN <<>>
  ELSE IF a[Len(a)] = 0 THEN Trim(SubSeq(a, 1, Len(a) - 1))
  ELSE a

RECURSIVE AddC(_, _, _, _)
AddC(a, b, c, acc) ==
  IF a = <<>> /\ b = <<>>
  THEN IF c = 0 THEN acc ELSE Append(acc, c)
  ELSE AddC(IF a = <<>> THEN <<>> ELSE Tail(a),
            IF b = <<>> THEN <<>> ELSE Tail(b),
            ((IF a = <<>> THEN 0 ELSE Head(a)) + (IF b = <<>> THEN 0 ELSE Head(b)) + c) \div Base,
            Append(acc, ((IF a = <<>> THEN 0 ELSE Head(a)) + (IF b = <<>> THEN 0 ELSE Head(b)) + c) % Base))

NatAdd(a, b) == AddC(a, b, 0, <<>>)

\* a - b for a >= b
RECURSIVE SubC(_, _, _, _)
SubC(a, b, br, acc) ==
  IF a = <<>> THEN Trim(acc)
  ELSE SubC(Tail(a),
            IF b = <<>> THEN <<>> ELSE Tail(b),
            IF Head(a) - (IF b = <<>> THEN 0 ELSE Head(b)) - br < 0 THEN 1 ELSE 0,
            Append(acc, (Head(a) - (IF b = <<>> THEN 0 ELSE Head(b)) - br + Base) % Base))

NatSub(a, b) == SubC(a, b, 0, <<>>)

\* -1, 0, 1 as a < b, a = b, a > b
RECURSIVE CmpFrom(_, _, _)
CmpFrom(a, b, i) ==
  IF i = 0 THEN 0
  ELSE IF a[i] < b[i] THEN -1
  ELSE IF a[i] > b[i] THEN 1
  ELSE CmpFrom(a, b, i - 1)

NatCmp(a, b) ==
  IF Len(a) < Len(b) THEN -1
  ELSE IF Len(a) > Len(b) THEN 1
  ELSE CmpFrom(a, b, Len(a))

\* a * s for a one-limb factor 0 <= s < Base
RECURSIVE MulSmallC(_, _, _, _)
MulSmallC(a, s, c, acc) ==
  IF a = <<>> THEN Trim(IF c = 0 THEN acc ELSE Append(acc, c))
  ELSE MulSmallC(Tail(a), s, (Head(a) * s + c) \div Base,
                 Append(acc, (Head(a) * s + c) % Base))

NatMulSmall(a, s) == MulSmallC(a, s, 0, <<>>)

RECURSIVE MulC(_, _, _, _)
MulC(a, b, shift, acc) ==
  IF b = <<>> THEN acc
  ELSE MulC(a, Tail(b), Append(shift, 0),
            NatAdd(acc, IF NatMulSmall(a, Head(b)) = <<>> THEN <<>>
                        ELSE shift \o NatMulSmall(a, Head(b))))

NatMul(a, b) == MulC(a, b, <<>>, <<>>)

\* quotient and remainder of a by a small divisor 0 < s < Base
RECURSIVE DivSmallC(_, _, _, _, _)
DivSmallC(a, s, i, r, q) ==
  IF i = 0 THEN [q |-> Trim(q), r |-> r]
  ELSE DivSmallC(a, s, i - 1, (r * Base + a[i]) % s,
                 <<(r * Base + a[i]) \div s>> \o q)

NatDivSmall(a, s) == DivSmallC(a, s, Len(a), 0, <<>>)

RECURSIVE NatOfInt(_)
NatOfInt(x) == IF x = 0 THEN <<>> ELSE <<x % Base>> \o NatOfInt(x \div Base)

RECURSIVE NatPow(_, _)
NatPow(s, e) == IF e = 0 THEN <<1>> ELSE NatMulSmall(NatPow(s, e - 1), s)

\* the denominators of a value are powers of these two
DenA == 999
DenB == 10

\* canonical form: least k, least m, no sign on zero
RECURSIVE Norm(_, _, _, _)
Norm(neg, mag, k, m) ==
  IF mag = <<>> THEN [neg |-> FALSE, mag |-> <<>>, k |-> 0, m |-> 0]
  ELSE IF m > 0 /\ NatDivSmall(mag, DenB).r = 0
       THEN Norm(neg, NatDivSmall(mag, DenB).q, k, m - 1)
  ELSE IF k > 0 /\ NatDivSmall(mag, DenA).r = 0
       THEN Norm(neg, NatDivSmall(mag, DenA).q, k - 1, m)
  ELSE [neg |-> neg, mag |-> mag, k |-> k, m |-> m]

\* the decimal x / 10^m, x an integer (a float64 literal or a JSON number)
Dec(x, m) == Norm(x < 0, NatOfInt(IF x < 0 THEN -x ELSE x), 0, m)

Zero == Dec(0, 0)
One == Dec(1, 0)

RNeg(x) == IF x.mag = <<>> THEN x ELSE [x EXCEPT !.neg = ~x.neg]

\* numerator of x over the denominator 999^k * 10^m, for k >= x.k, m >= x.m
Lift(x, k, m) == NatMul(NatMul(x.mag, NatPow(DenA, k - x.k)), NatPow(DenB, m - x.m))

Max(a, b) == IF a >= b THEN a ELSE b

RAdd(x, y) ==
  LET k == Max(x.k, y.k)
      m == Max(x.m, y.m)
      a == Lift(x, k, m)
      b == Lift(y, k, m)
  IN IF x.neg = y.neg THEN Norm(x.neg, NatAdd(a, b), k, m)
     ELSE IF NatCmp(a, b) >= 0 THEN Norm(x.neg, NatSub(a, b), k, m)
     ELSE Norm(y.neg, NatSub(b, a), k, m)

RSub(x, y) == RAdd(x, RNeg(y))

RMul(x, y) == Norm(x.neg # y.neg, NatMul(x.mag, y.mag), x.k + y.k, x.m + y.m)

\* how often the small factor s divides a
RECURSIVE CountFactor(_, _, _)
CountFactor(a, s, c) ==
  IF a = <<>> \/ NatDivSmall(a, s).r # 0 THEN c
  ELSE CountFactor(NatDivSmall(a, s).q, s, c + 1)

RECURSIVE StripFactor(_, _)
StripFactor(a, s) ==
  IF a = <<>> \/ NatDivSmall(a, s).r # 0 THEN a
  ELSE StripFactor(NatDivSmall(a, s).q, s)

\* x / y for a divisor whose numerator is 999^a * 10^b (1 - CostRate is 999/1000)
RDiv(x, y) ==
  Norm(x.neg # y.neg,
       NatMul(NatMul(x.mag, NatPow(DenA, y.k)), NatPow(DenB, y.m)),
       x.k + CountFactor(y.mag, DenA, 0),
       x.m + CountFactor(StripFactor(y.mag, DenA), DenB, 0))

RLess(x, y) == RSub(x, y).neg

RLeq(x, y) == ~RLess(y, x)

-----------------------------------------------------------------------------
(* Program constants *)

FIL_ETH == "FIL-ETH"
ETH_BSV == "ETH-BSV"
FIL_BSV == "FIL-BSV"

Tracked == {FIL_ETH, ETH_BSV, FIL_BSV}

\* a symbol the feed may carry that is none of the three
OTHER_SYMBOL == "BTC-USD"

\* filToSell := 100.0
Notional == Dec(100, 0)

\* the nil *PriceInfo
Nil == 0

\* the zero value of `var price PriceInfo` (bidFrom / askFrom record which
\* read produced the field; 0 is "no message")
ZeroPriceInfo == [Symbol |-> "", Bid |-> Zero, Ask |-> Zero, bidFrom |-> 0, askFrom |-> 0]

NoObject == [Symbol |-> "<free>"]

Addr == 1..MaxReads

\* decoded payloads of the text messages the feed delivers
Q(sym, bid, ask) == [symbol |-> sym, bid |-> bid, ask |-> ask]

FeedQuotes ==
  { Q(FIL_ETH, Dec(9, 2), Dec(1, 1)),
    Q(ETH_BSV, Dec(45, 2), Dec(49945005, 8)),
    Q(FIL_BSV, Dec(6, 2), Dec(7, 2)),
    Q(FIL_BSV, Dec(5, 2), Dec(6, 2)),
    Q(FIL_BSV, Dec(3, 2), Dec(4, 2)),
    Q(FIL_BSV, Dec(6, 2), Dec(4, 2)),
    Q(OTHER_SYMBOL, Dec(2, 0), Dec(3, 0)) }

NoMessage == [symbol |-> "<none>"]

\* values an out-of-scope float64 name may turn out to hold
UndefinedFloats == {Zero, Dec(10, 0)}

-----------------------------------------------------------------------------
(* State *)

VARIABLES
  exited,          \* the process has called os.Exit (log.Fatal)
  ipc,             \* position of connectAndReceivePrices
  nread,           \* ReadMessage calls answered so far
  message,         \* payload being decoded by json.Unmarshal
  cur,             \* address of the loop's `price` variable
  heap,            \* PriceInfo objects by address
  dpc,             \* position of main's loop
  price,           \* main's `price`: the one-entry map just received
  priceMap,        \* main's priceMap: symbol -> *PriceInfo
  strategy,        \* the TriArbStrategy
  forwardArbCond,  \* Execute's locals
  reverseArbCond,
  ethGet,
  bsvGet,
  out,             \* arguments of the Printf calls since the current Execute call began
  pre,             \* balances when the current Execute call began
  accepted,        \* read numbers of the quotes that reached the send, in order
  applied,         \* read numbers of the quotes stored into priceMap, in order
  calls,           \* Execute calls returned
  ethGetAt96,      \* what the name ethGet of line 96 denotes in this build
  last             \* the previous loop iteration: cached values, ledger change, cycle lines

vars == <<exited, ipc, nread, message, cur, heap, dpc, price, priceMap, strategy,
          forwardArbCond, reverseArbCond, ethGet, bsvGet, out, pre, accepted, applied, calls,
          ethGetAt96, last>>

ingestVars == <<ipc, nread, message, cur>>
execLocals == <<forwardArbCond, reverseArbCond, ethGet, bsvGet>>
mainVars == <<dpc, price, priceMap, strategy, forwardArbCond, reverseArbCond, ethGet, bsvGet,
              out, pre, applied, calls, ethGetAt96, last>>

Balances(s) == [FIL |-> s.FilAmount, ETH |-> s.EthAmount, BSV |-> s.BsvAmount]

NoPrice == [symbol |-> "<none>", ptr |-> Nil, id |-> 0]

\* line 96 names ethGet outside the block that declares it (line 58).  A build
\* has to bind the name to something: a variable of an enclosing scope holding
\* some value, or the forward block's variable moved to function scope.  The
\* binding is a property of the build: open until line 96 first runs, the
\* same ever after.
Unresolved == [kind |-> "unresolved", val |-> Zero]

ScopeChoices ==
  {[kind |-> "outer", val |-> v] : v \in UndefinedFloats} \cup {[kind |-> "forward", val |-> Zero]}

NoValue == [present |-> FALSE, Bid |-> Zero, Ask |-> Zero]

NoCall == [vals |-> [s \in Tracked |-> NoValue],
           pre |-> [FIL |-> Dec(700, 0), ETH |-> Zero, BSV |-> Zero],
           lines |-> <<>>]

Init ==
  /\ exited = FALSE
  /\ ipc = "dial"
  /\ nread = 0
  /\ message = NoMessage
  /\ cur = Nil
  /\ heap = [a \in Addr |-> NoObject]
  /\ dpc = "recv"
  /\ price = NoPrice
  /\ priceMap = [s \in Tracked |-> Nil]
  /\ strategy = [FilAmount |-> Dec(700, 0), EthAmount |-> Zero, BsvAmount |-> Zero,
                 CostRate |-> Dec(1, 3), SlipRate |-> Dec(1, 4)]
  /\ forwardArbCond = FALSE
  /\ reverseArbCond = FALSE
  /\ ethGet = Zero
  /\ bsvGet = Zero
  /\ out = <<>>
  /\ pre = Balances(strategy)
  /\ accepted = <<>>
  /\ applied = <<>>
  /\ calls = 0
  /\ ethGetAt96 = Unresolved
  /\ last = NoCall

\* objects no reference reaches are collected
Collect(h, roots) == [a \in Addr |-> IF a \in roots THEN h[a] ELSE NoObject]

Roots(map, inflight, c) == ({map[s] : s \in Tracked} \cup {inflight.ptr, c}) \ {Nil}

-----------------------------------------------------------------------------
(* connectAndReceivePrices *)

\* NewRequest and Dial succeed
DialOk ==
  /\ ~exited /\ ipc = "dial"
  /\ ipc' = "read"
  /\ UNCHANGED <<exited, nread, message, cur, heap, accepted>>
  /\ UNCHANGED mainVars

\* NewRequest or Dial fails: log.Fatal prints and calls os.Exit(1)
DialFail ==
  /\ ~exited /\ ipc = "dial"
  /\ exited' = TRUE
  /\ UNCHANGED <<ipc, nread, message, cur, heap, accepted>>
  /\ UNCHANGED mainVars

\* conn.ReadMessage returns an error: log, break, deferred conn.Close, return
ReadError ==
  /\ ~exited /\ ipc = "read" /\ nread < MaxReads
  /\ nread' = nread + 1
  /\ ipc' = "done"
  /\ UNCHANGED <<exited, message, cur, heap, accepted>>
  /\ UNCHANGED mainVars

\* a message that is not a TextMessage: the if is skipped, next iteration
ReadNonText ==
  /\ ~exited /\ ipc = "read" /\ nread < MaxReads
  /\ nread' = nread + 1
  /\ UNCHANGED <<exited, ipc, message, cur, heap, accepted>>
  /\ UNCHANGED mainVars

\* a text message json.Unmarshal rejects: log, continue
ReadMalformed ==
  /\ ~exited /\ ipc = "read" /\ nread < MaxReads
  /\ nread' = nread + 1
  /\ UNCHANGED <<exited, ipc, message, cur, heap, accepted>>
  /\ UNCHANGED mainVars

\* where `var price PriceInfo` of the read numbered n lives: the variable is
\* declared inside the loop body, so every iteration has its own
PriceVarShared(n) == [addr |-> 1, fresh |-> FALSE]

PriceVar(n) == [addr |-> n, fresh |-> TRUE]

\* a well-formed text message: `price` is declared and json.Unmarshal starts
\* filling it in document order (symbol and bid here, ask in UnmarshalRest)
ReadQuote ==
  /\ ~exited /\ ipc = "read" /\ nread < MaxReads
  /\ \E q \in FeedQuotes :
       LET n == nread + 1
           v == PriceVar(n)
           old == IF v.fresh \/ heap[v.addr] = NoObject THEN ZeroPriceInfo ELSE heap[v.addr]
       IN /\ nread' = n
          /\ message' = q
          /\ cur' = v.addr
          /\ heap' = [heap EXCEPT ![v.addr] =
                        [old EXCEPT !.Symbol = q.symbol, !.Bid = q.bid, !.bidFrom = n]]
  /\ ipc' = "unmarshal"
  /\ UNCHANGED <<exited, accepted>>
  /\ UNCHANGED mainVars

\* the end of the decode without the symbol test of line 139
UnmarshalRestNoFilter ==
  /\ ~exited /\ ipc = "unmarshal"
  /\ ipc' = "send"
  /\ heap' = [heap EXCEPT ![cur] = [@ EXCEPT !.Ask = message.ask, !.askFrom = nread]]
  /\ cur' = cur
  /\ accepted' = Append(accepted, nread)
  /\ message' = NoMessage
  /\ UNCHANGED <<exited, nread>>
  /\ UNCHANGED mainVars

\* the ingestion goroutine storing an accepted quote in the cache itself
UnmarshalRestWritesMap ==
  /\ ~exited /\ ipc = "unmarshal"
  /\ LET h == [heap EXCEPT ![cur] = [@ EXCEPT !.Ask = message.ask, !.askFrom = nread]]
     IN IF h[cur].Symbol \in Tracked
        THEN /\ ipc' = "send"
             /\ heap' = h
             /\ cur' = cur
             /\ accepted' = Append(accepted, nread)
             /\ priceMap' = [priceMap EXCEPT ![h[cur].Symbol] = cur]
        ELSE /\ ipc' = "read"
             /\ heap' = Collect(h, Roots(priceMap, price, Nil))
             /\ cur' = Nil
             /\ accepted' = accepted
             /\ priceMap' = priceMap
  /\ message' = NoMessage
  /\ UNCHANGED <<exited, nread>>
  /\ UNCHANGED <<dpc, price, strategy, out, pre, applied, calls, ethGetAt96, last>>
  /\ UNCHANGED execLocals

\* json.Unmarshal stores the ask and returns nil; then the symbol test of line 139
UnmarshalRest ==
  /\ ~exited /\ ipc = "unmarshal"
  /\ LET h == [heap EXCEPT ![cur] = [@ EXCEPT !.Ask = message.ask, !.askFrom = nread]]
     IN IF h[cur].Symbol \in Tracked
        THEN /\ ipc' = "send"
             /\ heap' = h
             /\ cur' = cur
             /\ accepted' = Append(accepted, nread)
        ELSE /\ ipc' = "read"
             /\ heap' = Collect(h, Roots(priceMap, price, Nil))
             /\ cur' = Nil
             /\ accepted' = accepted
  /\ message' = NoMessage
  /\ UNCHANGED <<exited, nread>>
  /\ UNCHANGED mainVars

-----------------------------------------------------------------------------
(* The unbuffered channel `prices` *)

\* a send that gives up when the receiver is not waiting
HandoffLossy ==
  /\ ~exited /\ ipc = "send"
  /\ IF dpc = "recv"
     THEN /\ price' = [symbol |-> heap[cur].Symbol, ptr |-> cur, id |-> accepted[Len(accepted)]]
          /\ dpc' = "update"
          /\ heap' = heap
     ELSE /\ UNCHANGED <<price, dpc>>
          /\ heap' = Collect(heap, Roots(priceMap, price, Nil))
  /\ ipc' = "read"
  /\ cur' = Nil
  /\ UNCHANGED <<exited, ethGetAt96, last, nread, message, priceMap, strategy, out, pre,
                 accepted, applied, calls>>
  /\ UNCHANGED execLocals

\* `prices <- map[...]{price.Symbol: &price}` meets `price := <-prices`:
\* the send completes only together with the receive
Handoff ==
  /\ ~exited /\ ipc = "send" /\ dpc = "recv"
  /\ price' = [symbol |-> heap[cur].Symbol, ptr |-> cur, id |-> accepted[Len(accepted)]]
  /\ ipc' = "read"
  /\ cur' = Nil
  /\ dpc' = "update"
  /\ UNCHANGED <<exited, ethGetAt96, last, nread, message, heap, priceMap, strategy, out, pre,
                 accepted, applied, calls>>
  /\ UNCHANGED execLocals

-----------------------------------------------------------------------------
(* main's loop *)

\* `priceMap = price` in place of the range loop: the received map replaces the cache
UpdateReplaceMap ==
  /\ ~exited /\ dpc = "update"
  /\ priceMap' = [s \in Tracked |-> IF s = price.symbol THEN price.ptr ELSE Nil]
  /\ applied' = Append(applied, price.id)
  /\ price' = NoPrice
  /\ heap' = Collect(heap, Roots(priceMap', NoPrice, cur))
  /\ dpc' = "exec"
  /\ UNCHANGED <<exited, ethGetAt96, last, strategy, out, pre, accepted, calls>>
  /\ UNCHANGED ingestVars
  /\ UNCHANGED execLocals

\* the loop body without its call of Execute
UpdateNoExecute ==
  /\ ~exited /\ dpc = "update"
  /\ priceMap' = [priceMap EXCEPT ![price.symbol] = price.ptr]
  /\ applied' = Append(applied, price.id)
  /\ price' = NoPrice
  /\ heap' = Collect(heap, Roots(priceMap', NoPrice, cur))
  /\ dpc' = "report"
  /\ UNCHANGED <<exited, ethGetAt96, last, strategy, out, pre, accepted, calls>>
  /\ UNCHANGED ingestVars
  /\ UNCHANGED execLocals

\* for symbol, info := range price { priceMap[symbol] = info }
Update ==
  /\ ~exited /\ dpc = "update"
  /\ priceMap' = [priceMap EXCEPT ![price.symbol] = price.ptr]
  /\ applied' = Append(applied, price.id)
  /\ price' = NoPrice
  /\ heap' = Collect(heap, Roots(priceMap', NoPrice, cur))
  /\ dpc' = "exec"
  /\ UNCHANGED <<exited, ethGetAt96, last, strategy, out, pre, accepted, calls>>
  /\ UNCHANGED ingestVars
  /\ UNCHANGED execLocals

-----------------------------------------------------------------------------
(* TriArbStrategy.Execute(priceMap) *)

LookupFilEth == priceMap[FIL_ETH]
LookupEthBsv == priceMap[ETH_BSV]
LookupFilBsvWrongKey == priceMap[FIL_ETH]

LookupFilBsv == priceMap[FIL_BSV]

filEthPrice == heap[LookupFilEth]
ethBsvPrice == heap[LookupEthBsv]
filBsvPrice == heap[LookupFilBsv]

AnyMissing == LookupFilEth = Nil \/ LookupEthBsv = Nil \/ LookupFilBsv = Nil

\* a forward condition that also wants the ETH balance not overdrawn
ForwardCondGuarded(s, fe, eb, fb) ==
  /\ RLess(RMul(fe.Ask, eb.Ask),
           RMul(RMul(fb.Bid, RSub(One, s.CostRate)), RSub(One, s.SlipRate)))
  /\ RLeq(Zero, s.EthAmount)

ForwardCondNotStrict(s, fe, eb, fb) ==
  RLeq(RMul(fe.Ask, eb.Ask),
       RMul(RMul(fb.Bid, RSub(One, s.CostRate)), RSub(One, s.SlipRate)))

\* filEthPrice.Ask*ethBsvPrice.Ask < filBsvPrice.Bid*(1-s.CostRate)*(1-s.SlipRate)
ForwardCond(s, fe, eb, fb) ==
  RLess(RMul(fe.Ask, eb.Ask),
        RMul(RMul(fb.Bid, RSub(One, s.CostRate)), RSub(One, s.SlipRate)))

\* the reverse comparison turned round: < where the code has >
ReverseCondFlipped(s, fe, eb, fb) ==
  RLess(RMul(fe.Bid, eb.Bid),
        RMul(RMul(fb.Ask, RAdd(One, s.CostRate)), RAdd(One, s.SlipRate)))

\* filEthPrice.Bid*ethBsvPrice.Bid > filBsvPrice.Ask*(1+s.CostRate)*(1+s.SlipRate)
ReverseCond(s, fe, eb, fb) ==
  RLess(RMul(RMul(fb.Ask, RAdd(One, s.CostRate)), RAdd(One, s.SlipRate)),
        RMul(fe.Bid, eb.Bid))

\* xCost := xToSell / (1 - s.CostRate)
Cost(s, toSell) == RDiv(toSell, RSub(One, s.CostRate))

\* yToBuy := xToSell * p ; yGet := yToBuy * (1 - s.SlipRate)
Get(s, toSell, p) == RMul(RMul(toSell, p), RSub(One, s.SlipRate))

LegLine(from, cost, to, get) == [kind |-> "leg", from |-> from, cost |-> cost, to |-> to, get |-> get]

DoneLine(dir, from, to) == [kind |-> "done", dir |-> dir, from |-> from, to |-> to]

\* Execute returns to main's loop
Return ==
  /\ dpc' = "report"
  /\ calls' = calls + 1
  /\ forwardArbCond' = FALSE
  /\ reverseArbCond' = FALSE
  /\ ethGet' = Zero
  /\ bsvGet' = Zero

\* lines 36-50: the three lookups, the nil test, the two conditions
ExecLoad ==
  /\ ~exited /\ dpc = "exec"
  /\ pre' = Balances(strategy)
  /\ out' = <<>>
  /\ IF AnyMissing
     THEN Return
     ELSE LET f == ForwardCond(strategy, filEthPrice, ethBsvPrice, filBsvPrice)
              r == ReverseCond(strategy, filEthPrice, ethBsvPrice, filBsvPrice)
          IN IF f \/ r
             THEN /\ forwardArbCond' = f
                  /\ reverseArbCond' = r
                  /\ dpc' = IF f THEN "fwd1" ELSE "rev1"
                  /\ UNCHANGED <<ethGet, bsvGet, calls>>
             ELSE Return
  /\ UNCHANGED <<exited, ethGetAt96, last, heap, price, priceMap, strategy, accepted, applied>>
  /\ UNCHANGED ingestVars

\* lines 55-61: FIL -> ETH at filEthPrice.Ask
Fwd1 ==
  /\ ~exited /\ dpc = "fwd1"
  /\ LET filToSell == Notional
         filCost == Cost(strategy, filToSell)
         get == Get(strategy, filToSell, filEthPrice.Ask)
     IN /\ ethGet' = get
        /\ strategy' = [strategy EXCEPT !.FilAmount = RSub(@, filCost),
                                        !.EthAmount = RAdd(@, get)]
        /\ out' = Append(out, LegLine("FIL", filCost, "ETH", get))
  /\ dpc' = "fwd2"
  /\ UNCHANGED <<exited, ethGetAt96, last, heap, price, priceMap, forwardArbCond, reverseArbCond, bsvGet,
                 pre, accepted, applied, calls>>
  /\ UNCHANGED ingestVars

\* lines 64-70: ETH -> BSV at ethBsvPrice.Ask
Fwd2 ==
  /\ ~exited /\ dpc = "fwd2"
  /\ LET ethToSell == ethGet
         ethCost == Cost(strategy, ethToSell)
         get == Get(strategy, ethToSell, ethBsvPrice.Ask)
     IN /\ bsvGet' = get
        /\ strategy' = [strategy EXCEPT !.EthAmount = RSub(@, ethCost),
                                        !.BsvAmount = RAdd(@, get)]
        /\ out' = Append(out, LegLine("ETH", ethCost, "BSV", get))
  /\ dpc' = "fwd3"
  /\ UNCHANGED <<exited, ethGetAt96, last, heap, price, priceMap, forwardArbCond, reverseArbCond, ethGet,
                 pre, accepted, applied, calls>>
  /\ UNCHANGED ingestVars

\* the third forward leg when the reverse block hangs on an `else`
Fwd3ElseIf ==
  /\ ~exited /\ dpc = "fwd3"
  /\ LET bsvToSell == bsvGet
         bsvCost == Cost(strategy, bsvToSell)
         filGet == Get(strategy, bsvToSell, filBsvPrice.Bid)
     IN /\ strategy' = [strategy EXCEPT !.BsvAmount = RSub(@, bsvCost),
                                        !.FilAmount = RAdd(@, filGet)]
        /\ out' = out \o <<LegLine("BSV", bsvCost, "FIL", filGet),
                           DoneLine("forward", Notional, filGet)>>
  /\ Return
  /\ UNCHANGED <<exited, ethGetAt96, last, heap, price, priceMap, pre, accepted, applied>>
  /\ UNCHANGED ingestVars

\* lines 73-82: BSV -> FIL at filBsvPrice.Bid, the completion line, end of the if
Fwd3 ==
  /\ ~exited /\ dpc = "fwd3"
  /\ LET bsvToSell == bsvGet
         bsvCost == Cost(strategy, bsvToSell)
         filGet == Get(strategy, bsvToSell, filBsvPrice.Bid)
     IN /\ strategy' = [strategy EXCEPT !.BsvAmount = RSub(@, bsvCost),
                                        !.FilAmount = RAdd(@, filGet)]
        /\ out' = out \o <<LegLine("BSV", bsvCost, "FIL", filGet),
                           DoneLine("forward", Notional, filGet)>>
  /\ IF reverseArbCond
     THEN /\ dpc' = "rev1"
          /\ UNCHANGED <<forwardArbCond, reverseArbCond, ethGet, bsvGet, calls>>
     ELSE Return
  /\ UNCHANGED <<exited, ethGetAt96, last, heap, price, priceMap, pre, accepted, applied>>
  /\ UNCHANGED ingestVars

\* lines 87-93: FIL -> BSV at filBsvPrice.Ask
Rev1 ==
  /\ ~exited /\ dpc = "rev1"
  /\ LET filToSell == Notional
         filCost == Cost(strategy, filToSell)
         get == Get(strategy, filToSell, filBsvPrice.Ask)
     IN /\ bsvGet' = get
        /\ strategy' = [strategy EXCEPT !.FilAmount = RSub(@, filCost),
                                        !.BsvAmount = RAdd(@, get)]
        /\ out' = Append(out, LegLine("FIL", filCost, "BSV", get))
  /\ dpc' = "rev2"
  /\ UNCHANGED <<exited, ethGetAt96, last, heap, price, priceMap, forwardArbCond, reverseArbCond, ethGet,
                 pre, accepted, applied, calls>>
  /\ UNCHANGED ingestVars

\* line 96 reads ethGet: the value the build's binding of the name gives it
EthGetInReverse(b) == IF b.kind = "forward" THEN ethGet ELSE b.val

\* lines 96-105: ETH -> FIL at filEthPrice.Bid, the completion line, return
Rev2 ==
  /\ ~exited /\ dpc = "rev2"
  /\ \E b \in (IF ethGetAt96 = Unresolved THEN ScopeChoices ELSE {ethGetAt96}) :
       LET ethToSell == EthGetInReverse(b)
           ethCost == Cost(strategy, ethToSell)
           filGet == Get(strategy, ethToSell, filEthPrice.Bid)
       IN /\ ethGetAt96' = b
          /\ strategy' = [strategy EXCEPT !.EthAmount = RSub(@, ethCost),
                                          !.FilAmount = RAdd(@, filGet)]
          /\ out' = out \o <<LegLine("ETH", ethCost, "FIL", filGet),
                             DoneLine("reverse", Notional, filGet)>>
  /\ Return
  /\ UNCHANGED <<exited, last, heap, price, priceMap, pre, accepted, applied>>
  /\ UNCHANGED ingestVars

-----------------------------------------------------------------------------
(* The ticker select of lines 182-194 *)

\* the loop body ends: its output and the balances it began with are history
CacheValues ==
  [s \in Tracked |-> IF priceMap[s] = Nil THEN NoValue
                     ELSE [present |-> TRUE, Bid |-> heap[priceMap[s]].Bid,
                           Ask |-> heap[priceMap[s]].Ask]]

Delta == [FIL |-> RSub(strategy.FilAmount, pre.FIL),
          ETH |-> RSub(strategy.EthAmount, pre.ETH),
          BSV |-> RSub(strategy.BsvAmount, pre.BSV)]

\* what the previous loop body did to the balances: it ended where this one began
LastDelta == [FIL |-> RSub(pre.FIL, last.pre.FIL),
              ETH |-> RSub(pre.ETH, last.pre.ETH),
              BSV |-> RSub(pre.BSV, last.pre.BSV)]

CycleLines == SelectSeq(out, LAMBDA l : l.kind # "balances")

NextIteration ==
  /\ dpc' = "recv"
  /\ out' = <<>>
  /\ pre' = Balances(strategy)
  /\ last' = [vals |-> CacheValues, pre |-> pre, lines |-> CycleLines]

\* the balances printed from a timer of its own, whatever main is doing
ReportTickConcurrent ==
  /\ ~exited /\ dpc \in {"fwd2", "fwd3", "rev2", "report"}
  /\ IF out = <<>> THEN TRUE ELSE out[Len(out)].kind # "balances"
  /\ out' = Append(out, [kind |-> "balances", FIL |-> strategy.FilAmount,
                         ETH |-> strategy.EthAmount, BSV |-> strategy.BsvAmount])
  /\ dpc' = IF dpc = "report" THEN "stop" ELSE dpc
  /\ UNCHANGED <<exited, ethGetAt96, last, heap, price, priceMap, strategy, pre, accepted, applied, calls>>
  /\ UNCHANGED ingestVars
  /\ UNCHANGED execLocals

\* case <-ticker.C: the Printf of the balances
ReportTick ==
  /\ ~exited /\ dpc = "report"
  /\ out' = Append(out, [kind |-> "balances", FIL |-> strategy.FilAmount,
                         ETH |-> strategy.EthAmount, BSV |-> strategy.BsvAmount])
  /\ dpc' = "stop"
  /\ UNCHANGED <<exited, ethGetAt96, last, heap, price, priceMap, strategy, pre, accepted, applied, calls>>
  /\ UNCHANGED ingestVars
  /\ UNCHANGED execLocals

\* ticker.Stop(), end of the loop body
TickerStop ==
  /\ ~exited /\ dpc = "stop"
  /\ NextIteration
  /\ UNCHANGED <<exited, ethGetAt96, heap, price, priceMap, strategy, accepted, applied, calls>>
  /\ UNCHANGED ingestVars
  /\ UNCHANGED execLocals

\* default: continue
ReportDefault ==
  /\ ~exited /\ dpc = "report"
  /\ NextIteration
  /\ UNCHANGED <<exited, ethGetAt96, heap, price, priceMap, strategy, accepted, applied, calls>>
  /\ UNCHANGED ingestVars
  /\ UNCHANGED execLocals

-----------------------------------------------------------------------------

Next ==
  \/ DialOk
  \/ DialFail
  \/ ReadError
  \/ ReadNonText
  \/ ReadMalformed
  \/ ReadQuote
  \/ UnmarshalRest
  \/ Handoff
  \/ Update
  \/ ExecLoad
  \/ Fwd1
  \/ Fwd2
  \/ Fwd3
  \/ Rev1
  \/ Rev2
  \/ ReportTick
  \/ TickerStop
  \/ ReportDefault

Spec == Init /\ [][Next]_vars

TypeOK ==
  /\ ipc \in {"dial", "read", "unmarshal", "send", "done"}
  /\ dpc \in {"recv", "update", "exec", "fwd1", "fwd2", "fwd3", "rev1", "rev2", "report", "stop"}

-----------------------------------------------------------------------------
(* Vocabulary of the properties *)

Present(sym) == priceMap[sym] # Nil
Cached(sym) == heap[priceMap[sym]]
AllPresent == \A sym \in Tracked : Present(sym)

\* main is inside Execute
ExecPcs == {"exec", "fwd1", "fwd2", "fwd3", "rev1", "rev2"}

\* Execute has just returned to the loop
Returned == dpc = "report"

Legs == SelectSeq(out, LAMBDA l : l.kind = "leg")
Completed(dir) == \E i \in 1..Len(out) : out[i].kind = "done" /\ out[i].dir = dir
ForwardRan == Completed("forward")
ReverseRan == Completed("reverse")

\* the legs of the reverse block: those after the forward block's three
ReverseLegs == IF ForwardRan THEN SubSeq(Legs, 4, Len(Legs)) ELSE Legs

KeepFactor == RMul(RSub(One, strategy.CostRate), RSub(One, strategy.SlipRate))
ForwardLhs == RMul(Cached(FIL_ETH).Ask, Cached(ETH_BSV).Ask)
ForwardRhs == RMul(Cached(FIL_BSV).Bid, KeepFactor)
ReverseHolds ==
  RLess(RMul(Cached(FIL_BSV).Ask,
             RMul(RAdd(One, strategy.CostRate), RAdd(One, strategy.SlipRate))),
        RMul(Cached(FIL_ETH).Bid, Cached(ETH_BSV).Bid))

Fee(x) == RDiv(x, RSub(One, strategy.CostRate))
Slipped(x) == RMul(x, RSub(One, strategy.SlipRate))

IsPrefix(a, b) == Len(a) <= Len(b) /\ SubSeq(b, 1, Len(a)) = a

-----------------------------------------------------------------------------
(* C1: while a symbol is missing from the cache, a call of Execute leaves   *)
(* FilAmount, EthAmount and BsvAmount exactly as they were when the call    *)
(* began, whatever the quotes that are present.                             *)
C1_MissingSymbolNoMutation ==
  (dpc \in ExecPcs \cup {"report"} /\ ~AllPresent)
     => /\ Balances(strategy) = pre
        /\ Legs = <<>>

C1_Witness ==
  /\ Returned /\ calls = 2
  /\ Present(FIL_ETH) /\ Present(ETH_BSV) /\ ~Present(FIL_BSV)

(* C2: with all three quotes present the forward cycle runs exactly when    *)
(* ask(FIL-ETH) * ask(ETH-BSV) < bid(FIL-BSV) * (1-CostRate) * (1-SlipRate); *)
(* at equality it does not run and no forward leg is applied.               *)
C2_ForwardIffStrictlyLess ==
  (Returned /\ AllPresent)
     => /\ ForwardRan <=> RLess(ForwardLhs, ForwardRhs)
        /\ ForwardLhs = ForwardRhs =>
             \A i \in 1..Len(Legs) : ~(Legs[i].from = "FIL" /\ Legs[i].to = "ETH")

C2_Witness == Returned /\ AllPresent /\ ForwardLhs = ForwardRhs /\ ~ForwardRan

(* C3: whenever the reverse condition holds with all three quotes present,  *)
(* Execute applies exactly three reverse legs FIL->BSV, BSV->ETH, ETH->FIL: *)
(* the first commits 100 FIL, each later one what the one before received,  *)
(* each debiting amount/(1-CostRate).                                       *)
C3_ReverseThreeLegs ==
  (Returned /\ AllPresent /\ ReverseHolds)
     => /\ ReverseRan
        /\ Len(ReverseLegs) = 3
        /\ <<ReverseLegs[1].from, ReverseLegs[1].to>> = <<"FIL", "BSV">>
        /\ <<ReverseLegs[2].from, ReverseLegs[2].to>> = <<"BSV", "ETH">>
        /\ <<ReverseLegs[3].from, ReverseLegs[3].to>> = <<"ETH", "FIL">>
        /\ ReverseLegs[1].cost = Fee(Notional)
        /\ ReverseLegs[2].cost = Fee(ReverseLegs[1].get)
        /\ ReverseLegs[3].cost = Fee(ReverseLegs[2].get)

(* C4: whenever the forward cycle runs, the ledger after the call is the    *)
(* ledger before the call plus exactly the six changes of the legs FIL->ETH *)
(* at ask(FIL-ETH), ETH->BSV at ask(ETH-BSV), BSV->FIL at bid(FIL-BSV).     *)
C4_ForwardSixChanges ==
  (Returned /\ ForwardRan)
     => LET got1 == Slipped(RMul(Notional, Cached(FIL_ETH).Ask))
            got2 == Slipped(RMul(got1, Cached(ETH_BSV).Ask))
            got3 == Slipped(RMul(got2, Cached(FIL_BSV).Bid))
        IN /\ strategy.FilAmount = RAdd(RSub(pre.FIL, Fee(Notional)), got3)
           /\ strategy.EthAmount = RSub(RAdd(pre.ETH, got1), Fee(got1))
           /\ strategy.BsvAmount = RSub(RAdd(pre.BSV, got2), Fee(got2))

(* C5: after every Execute call that follows an accepted quote, each of     *)
(* FilAmount, EthAmount and BsvAmount is >= 0.                              *)
C5_NoNegativeBalances ==
  Returned => /\ RLeq(Zero, strategy.FilAmount)
              /\ RLeq(Zero, strategy.EthAmount)
              /\ RLeq(Zero, strategy.BsvAmount)

(* C6: at most one accepted quote waits between the two tasks, and it waits *)
(* exactly while the ingestion task stands at the send; while main is not   *)
(* at the receive, no step takes the ingestion task past the send or        *)
(* changes, drops or replaces the waiting quote.                            *)
Received == Len(applied) + (IF dpc = "update" THEN 1 ELSE 0)
Waiting == Len(accepted) - Received

C6_Backpressure ==
  [][ /\ Waiting' \in {0, 1}
      /\ (Waiting' = 1) <=> (ipc' = "send")
      /\ (ipc = "send" /\ dpc # "recv")
           => /\ ipc' = "send"
              /\ cur' = cur
              /\ heap'[cur] = heap[cur]
              /\ accepted' = accepted
              /\ nread' = nread ]_vars

C6_Witness == ipc = "send" /\ dpc = "fwd2" /\ Len(applied) = 3

(* C7: the quotes stored into the cache are always a prefix of the quotes   *)
(* accepted by the ingestion task, in the same order and without repeats;   *)
(* every stored quote gets exactly one Execute call, which has returned     *)
(* before the next quote is received.                                       *)
C7_ExactlyOnceInOrder ==
  /\ IsPrefix(applied, accepted)
  /\ \A i, j \in 1..Len(accepted) : i < j => accepted[i] < accepted[j]
  /\ dpc \in ExecPcs => calls = Len(applied) - 1
  /\ dpc \notin ExecPcs => calls = Len(applied)

C7_Witness == Returned /\ Len(applied) = 3 /\ applied = accepted /\ ForwardRan

(* C8: in every interleaving, each cache entry Execute can read holds the   *)
(* symbol, bid and ask of one single feed message.                          *)
C8_ConsistentQuotes ==
  dpc \in ExecPcs =>
    \A sym \in Tracked :
      Present(sym) => /\ Cached(sym).Symbol = sym
                      /\ Cached(sym).bidFrom = Cached(sym).askFrom
                      /\ Cached(sym).bidFrom # 0

C8_Witness == dpc = "fwd2" /\ ipc = "unmarshal" /\ message.symbol = ETH_BSV

(* C9: once a read from the feed has failed and the ingestion task has      *)
(* terminated, main is not left waiting at the receive for ever: some step  *)
(* that reaches main (a closed channel, a signal) is still possible.        *)
C9_DisconnectSurfaced == (ipc = "done" /\ dpc = "recv") => ENABLED Next

(* C10: if a cached quote has ask < bid, Execute changes no balance.        *)
C10_CrossedQuoteNoMutation ==
  (Returned /\ AllPresent /\ \E sym \in Tracked : RLess(Cached(sym).Ask, Cached(sym).Bid))
     => Balances(strategy) = pre

(* C11: whether a direction fires in a call is decided by the cached quotes  *)
(* and the two rates alone; a call made on a cache holding the same values  *)
(* as the call before it runs the same cycles again and changes the ledger  *)
(* by the same amounts (no debouncing).                                     *)
C11_Stateless ==
  (Returned /\ AllPresent)
     => /\ ForwardRan <=> RLess(ForwardLhs, ForwardRhs)
        /\ ReverseRan <=> ReverseHolds
        /\ CacheValues = last.vals => (CycleLines = last.lines /\ Delta = LastDelta)

C11_Witness ==
  /\ Returned /\ AllPresent /\ CacheValues = last.vals
  /\ ForwardRan /\ Delta = LastDelta /\ Delta.FIL # Zero

(* C12: within one Execute call each direction runs at most once; when both *)
(* conditions hold on the snapshot both cycles run in that call, every      *)
(* forward line before the first reverse line; the two conditions are those *)
(* of the quotes as they stood when the call began.                         *)
Count(dir) == Cardinality({i \in 1..Len(out) : out[i].kind = "done" /\ out[i].dir = dir})

IsForwardLine(l) ==
  \/ l.kind = "leg" /\ <<l.from, l.to>> \in {<<"FIL", "ETH">>, <<"ETH", "BSV">>, <<"BSV", "FIL">>}
  \/ l.kind = "done" /\ l.dir = "forward"

IsReverseLine(l) ==
  \/ l.kind = "leg" /\ <<l.from, l.to>> \in {<<"FIL", "BSV">>, <<"BSV", "ETH">>, <<"ETH", "FIL">>}
  \/ l.kind = "done" /\ l.dir = "reverse"

C12_EachDirectionOncePerCall ==
  (dpc \in ExecPcs \cup {"report"})
     => /\ Count("forward") <= 1
        /\ Count("reverse") <= 1
        /\ Cardinality({i \in 1..Len(out) : IsForwardLine(out[i])}) <= 4
        /\ \A i, j \in 1..Len(out) :
             (IsForwardLine(out[i]) /\ IsReverseLine(out[j])) => (i < j /\ 4 < j)
        /\ (dpc \in {"fwd1", "fwd2", "fwd3", "rev1", "rev2"})
             => /\ forwardArbCond <=> RLess(ForwardLhs, ForwardRhs)
                /\ reverseArbCond <=> ReverseHolds
        /\ (Returned /\ AllPresent /\ RLess(ForwardLhs, ForwardRhs) /\ ReverseHolds)
             => (ForwardRan /\ ReverseRan)

C12_Witness == Returned /\ ForwardRan /\ ReverseRan /\ Len(Legs) = 5

(* C13: a quote reaches the send, and so main, only when a text message     *)
(* decoded and its symbol is one of the three; a message with another       *)
(* symbol, a non-text message or a malformed payload causes no handoff and  *)
(* no change of cache or ledger, and leaves the ingestion task reading.     *)
C13_IngestionFiltering ==
  [][ /\ (accepted' # accepted)
           => /\ ipc = "unmarshal" /\ ipc' = "send"
              /\ message.symbol \in Tracked
              /\ accepted' = Append(accepted, nread)
              /\ heap'[cur'].Symbol = message.symbol
              /\ heap'[cur'].Bid = message.bid
              /\ heap'[cur'].Ask = message.ask
      /\ (dpc = "recv" /\ dpc' = "update")
           => /\ ipc = "send"
              /\ price'.symbol \in Tracked
              /\ price'.symbol = heap[price'.ptr].Symbol
      /\ (ipc = "unmarshal" /\ message.symbol \notin Tracked /\ ipc' # ipc)
           => /\ ipc' = "read"
              /\ accepted' = accepted
              /\ priceMap' = priceMap /\ strategy' = strategy /\ dpc' = dpc
      /\ (ReadNonText \/ ReadMalformed)
           => /\ ipc' = "read"
              /\ accepted' = accepted
              /\ priceMap' = priceMap /\ strategy' = strategy /\ heap' = heap /\ dpc' = dpc
    ]_vars

C13_Witness ==
  /\ nread = 3 /\ ipc = "read" /\ accepted = <<>> /\ applied = <<>>
  /\ \A sym \in Tracked : ~Present(sym)

(* C14: storing a handed-off quote for a symbol makes that symbol's entry    *)
(* the quote and leaves the other two entries as they were; an entry, once  *)
(* present, is never absent again; no step other than the store (not        *)
(* Execute, not the report) changes what the cache holds.                   *)
C14_LastWriteWinsNoEviction ==
  [][ /\ (dpc = "update" /\ dpc' # dpc)
           => /\ priceMap'[price.symbol] = price.ptr
              /\ CacheValues'[price.symbol] =
                   [present |-> TRUE, Bid |-> heap[price.ptr].Bid, Ask |-> heap[price.ptr].Ask]
              /\ \A sym \in Tracked \ {price.symbol} :
                   priceMap'[sym] = priceMap[sym] /\ CacheValues'[sym] = CacheValues[sym]
      /\ \A sym \in Tracked : Present(sym) => Present(sym)'
      /\ (dpc # "update") => (priceMap' = priceMap /\ CacheValues' = CacheValues)
    ]_vars

C14_Witness ==
  /\ dpc = "exec" /\ AllPresent /\ Len(applied) = 4
  /\ \A sym \in Tracked : last.vals[sym].present
  /\ CacheValues # last.vals

(* C15: the report step changes no balance and no cache entry, never holds  *)
(* the loop (from the select main always has a step back to the receive),   *)
(* and prints balances only after Execute has returned: the printed values  *)
(* are those of a ledger on which every cycle begun has all its legs.       *)
ForwardLines == Cardinality({i \in 1..Len(out) : IsForwardLine(out[i])})
ReverseLines == Cardinality({i \in 1..Len(out) : IsReverseLine(out[i])})

C15_ReportObservational ==
  [][ /\ (dpc \in {"report", "stop"})
           => /\ strategy' = strategy
              /\ priceMap' = priceMap /\ CacheValues' = CacheValues
              /\ dpc' \in {dpc, "stop", "recv"}
      /\ (dpc \in {"report", "stop"} /\ ~exited)
           => ENABLED (ReportDefault \/ ReportTick \/ TickerStop)
      /\ \A i \in 1..Len(out') :
           out'[i].kind = "balances"
             => /\ i = Len(out') /\ dpc' = "stop"
                /\ [FIL |-> out'[i].FIL, ETH |-> out'[i].ETH, BSV |-> out'[i].BSV]
                     = Balances(strategy')
                /\ ForwardLines' \in {0, 4}
                /\ ReverseLines' \in {0, 3}
    ]_vars

C15_Witness ==
  /\ dpc = "stop" /\ ForwardRan
  /\ out[Len(out)].kind = "balances" /\ out[Len(out)].FIL = strategy.FilAmount

(* C16: whenever the forward cycle has run, the FIL its third leg credited   *)
(* (filGet, the second number of the completion message) is greater than    *)
(* the 100 FIL its first leg committed (filToSell, the first number).       *)
C16_ForwardIncreasesFil ==
  \A i \in 1..Len(out) :
    (out[i].kind = "done" /\ out[i].dir = "forward")
      => /\ out[i].from = Notional
         /\ RLess(out[i].from, out[i].to)

(* C17: no error of the feed ends the process: after a failure to build the *)
(* request or to connect, as after a read error, the process has not exited *)
(* and the decision task with it.                                           *)
C17_NoFeedErrorFatal == ~exited

(* C18: when the three cached quotes have positive prices with ask >= bid    *)
(* and both rates lie in [0,1), the forward and the reverse condition are   *)
(* not both true in one Execute call, so a call in which both cycles ran    *)
(* read at least one crossed quote (ask < bid).                             *)
Uncrossed ==
  \A sym \in Tracked :
    /\ RLess(Zero, Cached(sym).Bid)
    /\ RLeq(Cached(sym).Bid, Cached(sym).Ask)

RatesInUnit ==
  /\ RLeq(Zero, strategy.CostRate) /\ RLess(strategy.CostRate, One)
  /\ RLeq(Zero, strategy.SlipRate) /\ RLess(strategy.SlipRate, One)

C18_NeverBothUnlessCrossed ==
  AllPresent
    => /\ (dpc = "exec" /\ RLess(ForwardLhs, ForwardRhs) /\ ReverseHolds)
            => ~(Uncrossed /\ RatesInUnit)
       /\ (dpc \in ExecPcs \ {"exec"} /\ forwardArbCond /\ reverseArbCond)
            => ~(Uncrossed /\ RatesInUnit)
       /\ (dpc \in ExecPcs \cup {"report", "stop"} /\ ForwardRan /\ ReverseRan)
            => ~(Uncrossed /\ RatesInUnit)

C18_Witness ==
  /\ Returned /\ AllPresent /\ Uncrossed /\ RatesInUnit
  /\ ForwardRan /\ ~ReverseRan
  /\ RLess(Cached(FIL_BSV).Bid, Cached(FIL_BSV).Ask)

(* C19: the ledger and the cache have one writer.  In every step: the       *)
(* balances change only while main is inside Execute, at one of its legs;   *)
(* a cache entry changes only at main's update; CostRate and SlipRate keep  *)
(* the values main gave them; and a step of the ingestion goroutine changes *)
(* no balance, no rate and no cache entry.                                  *)
LegPcs == {"fwd1", "fwd2", "fwd3", "rev1", "rev2"}

IngestStep == ipc' # ipc \/ nread' # nread \/ message' # message \/ cur' # cur

C19_SingleWriter ==
  [][ /\ Balances(strategy') # Balances(strategy)
           => (dpc \in LegPcs /\ UNCHANGED ingestVars)
      /\ (priceMap' # priceMap \/ CacheValues' # CacheValues)
           => (dpc = "update" /\ UNCHANGED ingestVars)
      /\ strategy.CostRate = Dec(1, 3) /\ strategy'.CostRate = strategy.CostRate
      /\ strategy.SlipRate = Dec(1, 4) /\ strategy'.SlipRate = strategy.SlipRate
      /\ IngestStep
           => /\ strategy' = strategy
              /\ priceMap' = priceMap
              /\ CacheValues' = CacheValues
    ]_vars

C19_Witness ==
  /\ ipc = "send" /\ nread = 4 /\ dpc = "fwd3"
  /\ Balances(strategy) # pre
  /\ Cached(heap[cur].Symbol) # heap[cur]

====
